---------------------------- MODULE Spec2Model ----------------------------
(***************************************************************************)
(* A model of the go-serial Port session: one Port object (package serial, *)
(* type Port) bound to one device of the libserialport provider.           *)
(*                                                                         *)
(* The Go side (the Port struct and its methods) is translated from the    *)
(* source.  The provider (libserialport's sp_* functions, which the Go     *)
(* code calls through cgo) is modelled by the sp_* operators below.        *)
(***************************************************************************)
EXTENDS Integers, Sequences, FiniteSets, TLC

(***************************************************************************)
(* Bounds of the model.                                                    *)
(***************************************************************************)
\* the number of API calls made on the Port in one behaviour
MaxCalls == 3
\* the last instant of the model's clock
MaxTime == 4
\* the longest buffer given to Read, Write and WriteString
MaxLen == 2
\* the most devices the provider enumerates
MaxPorts == 3

(***************************************************************************)
(* Provider return codes (enum sp_return) and the Go error values.         *)
(***************************************************************************)
SP_OK == 0
SP_ERR_ARG == -1
SP_ERR_FAIL == -2
SP_ERR_MEM == -3
SP_ERR_SUPP == -4

Nil == "nil"
InvalidArgumentsError == "InvalidArgumentsError"
SystemError == "SystemError"
MemoryAllocationError == "MemoryAllocationError"
UnsupportedOperationError == "UnsupportedOperationError"

\* func errmsg(err C.enum_sp_return) error
errmsg(err) ==
    CASE err = SP_ERR_ARG  -> InvalidArgumentsError
      [] err = SP_ERR_FAIL -> SystemError
      [] err = SP_ERR_MEM  -> MemoryAllocationError
      [] err = SP_ERR_SUPP -> UnsupportedOperationError
      [] OTHER             -> Nil

(***************************************************************************)
(* Enumerations of the configuration fields (libserialport values).        *)
(***************************************************************************)
MODE_READ == 1
MODE_WRITE == 2

PARITY_NONE == 0
PARITY_ODD == 1

RTS_OFF == 0
RTS_ON == 1
RTS_FLOW_CONTROL == 2

CTS_IGNORE == 0
CTS_FLOW_CONTROL == 1

DTR_OFF == 0
DTR_ON == 1
DTR_FLOW_CONTROL == 2

DSR_IGNORE == 0
DSR_FLOW_CONTROL == 1

XONXOFF_DISABLED == 0
XONXOFF_INOUT == 3

FLOWCONTROL_NONE == 0
FLOWCONTROL_XONXOFF == 1
FLOWCONTROL_RTSCTS == 2
FLOWCONTROL_DTRDSR == 3

TRANSPORT_NATIVE == 0
TRANSPORT_USB == 1
TRANSPORT_BLUETOOTH == 2

\* the value sp_new_config gives every field of a fresh configuration
Unset == -1

\* the default baud rate Options documents
DefaultBaudrate == 9600
\* a second rate the device supports exactly
FastBaudrate == 115200
\* a rate the device does not support exactly
OddBaudrate == DefaultBaudrate + 400

\* the fields of struct sp_port_config
Fields ==
    {"baudrate", "bits", "parity", "stopbits", "rts", "cts", "dtr", "dsr",
     "xon_xoff"}

\* sp_new_config: every field "left alone"
NewConfig == [f \in Fields |-> Unset]


(***************************************************************************)
(* State.                                                                  *)
(***************************************************************************)
VARIABLES
    p,            \* Port.p is not nil (the native struct sp_port exists)
    c,            \* Port.c is not nil (the native struct sp_port_config exists)
    config,       \* the contents of *Port.c
    opened,       \* Port.opened
    fd,           \* the provider's handle inside struct sp_port (NoFd: closed)
    hw,           \* the line settings the device currently has
    nfd,          \* how many OS handles the provider has opened so far
    openMode,     \* the flags the last sp_open that succeeded was given
    openFds,      \* the OS handles that are open
    osFiles,      \* the os.File objects made by os.NewFile, by descriptor
    closeCalls,   \* how many times sp_close has been invoked
    doubleClose,  \* sp_close was invoked on a port whose handle was closed
    applied,      \* the settings last committed by sp_get_config/sp_set_config
    reqBaud,      \* the rate last given to SetBaudrate and not yet committed
    life,         \* the lifecycle state the API calls so far lead to
    ret,          \* the last API call: its name, argument and returned error
    calls,        \* the number of API calls made
    pcClose,      \* where a Close running step by step is, and its local err
    pcFree,       \* where a free running step by step is
    file,         \* Port.f: the handle the os.File wraps (NoFd: p.f is nil)
    readDeadline, \* Port.readDeadline (ZeroTime: not set)
    writeDeadline,\* Port.writeDeadline (ZeroTime: not set)
    rx,           \* the bytes waiting in the input buffer of the device
    tx,           \* the bytes waiting in the output buffer of the device
    xfers,        \* how many transfer primitives have been invoked
    portFrees,    \* how many times sp_free_port has been invoked
    configFrees,  \* how many times sp_free_config has been invoked
    io,           \* the last I/O call: primitive, timeout, raw result, return
    panicked,     \* a call ended in a run-time panic: the process is gone
    made,         \* the calls the last ApplyRawConfig made, in their order
    reader,       \* where a Read running step by step is, and its locals
    writer,       \* where a Write running step by step is, and its locals
    devs,         \* the devices the provider enumerates, in its order
    ports,        \* the slice ListPorts is building
    copies,       \* the native port structs the provider has made for Ports
    lp,           \* where ListPorts is, and what it returned
    byName,       \* what PortByName or the function Open returned
    meta          \* the last metadata getter call and what it returned

vars ==
    <<p, c, config, opened, fd, hw, nfd, openMode, openFds, osFiles,
      closeCalls, doubleClose, applied, reqBaud, life, ret, calls, pcClose, pcFree, file,
      readDeadline, writeDeadline, rx, tx, xfers, portFrees, configFrees,
      io, panicked, made, reader, writer, devs, ports, copies, lp, byName,
      meta>>

\* the goroutines that run Read and Write step by step
threadVars == <<reader, writer>>

\* the state of the registry (ListPorts, PortByName and the ports they return)
listVars == <<devs, ports, copies, lp, byName, meta>>

\* the value of the provider's handle field when the port is not open
NoFd == 0

\* the zero value of time.Time: IsZero() holds of it and of no instant
ZeroTime == 0

\* time.Millisecond, in the unit of the model's clock (half a millisecond)
Millisecond == 2

\* the size of the output buffer of the device
TxCap == 2

\* a goroutine that is not inside Read or Write: no locals, and the return
\* of its last call
NoCall ==
    [pc |-> "idle", count |-> 0, d0 |-> 0, now |-> 0, millis |-> 0,
     prim |-> "none", timeout |-> 0, n |-> 0, err |-> Nil]

\* The Port and its provider as one value, so that a method is an operator
\* from the state before the call to the state after it.
World ==
    [p |-> p, c |-> c, config |-> config, opened |-> opened, fd |-> fd,
     hw |-> hw, nfd |-> nfd, openMode |-> openMode, openFds |-> openFds,
     osFiles |-> osFiles,
     closeCalls |-> closeCalls, doubleClose |-> doubleClose,
     applied |-> applied, reqBaud |-> reqBaud,
     file |-> file, readDeadline |-> readDeadline, writeDeadline |-> writeDeadline,
     rx |-> rx, tx |-> tx, xfers |-> xfers, portFrees |-> portFrees,
     configFrees |-> configFrees]

(***************************************************************************)
(* The provider (libserialport).  Each operator takes the state, its       *)
(* arguments and whether the underlying system call fails, and gives the   *)
(* return code rc and the state after the call.                            *)
(***************************************************************************)
\* the rate the device really runs at when asked for baud
EffectiveBaud(baud) ==
    IF baud >= FastBaudrate THEN FastBaudrate ELSE DefaultBaudrate

\* the settings of the device after config is written to it: a field that
\* is Unset is left alone
MergeConfig(old, new) ==
    [f \in Fields |->
        IF new[f] = Unset THEN old[f]
        ELSE IF f = "baudrate" THEN EffectiveBaud(new[f])
        ELSE new[f]]

\* enum sp_return sp_open(struct sp_port *port, enum sp_mode flags)
sp_open(w, flags, fail) ==
    IF ~w.p THEN [rc |-> SP_ERR_ARG, w |-> w]
    ELSE IF fail THEN [rc |-> SP_ERR_FAIL, w |-> w]
    ELSE [rc |-> SP_OK,
          w  |-> [w EXCEPT !.fd = w.nfd + 1, !.nfd = w.nfd + 1,
                           !.openMode = flags,
                           !.openFds = @ \cup {w.nfd + 1}]]

\* enum sp_return sp_close(struct sp_port *port)
sp_close(w, fail) ==
    LET called == [w EXCEPT !.closeCalls = @ + 1] IN
    IF ~w.p THEN [rc |-> SP_ERR_ARG, w |-> called]
    ELSE IF w.fd = NoFd
        THEN [rc |-> SP_ERR_ARG,
              w  |-> [called EXCEPT !.doubleClose = @ \/ (w.nfd > 0)]]
    ELSE IF fail THEN [rc |-> SP_ERR_FAIL, w |-> called]
    ELSE [rc |-> SP_OK,
          w  |-> [called EXCEPT !.fd = NoFd, !.openFds = @ \ {w.fd}]]

\* void sp_free_port(struct sp_port *port): the struct goes, an open handle
\* in it is not closed
sp_free_port(w) ==
    [w EXCEPT !.p = FALSE, !.fd = NoFd, !.portFrees = @ + 1]

\* void sp_free_config(struct sp_port_config *config)
sp_free_config(w) ==
    [w EXCEPT !.c = FALSE, !.config = NewConfig, !.configFrees = @ + 1]

\* enum sp_return sp_get_config(struct sp_port *port, struct sp_port_config *config)
sp_get_config(w, fail) ==
    IF ~w.p \/ w.fd = NoFd \/ ~w.c THEN [rc |-> SP_ERR_ARG, w |-> w]
    ELSE IF fail THEN [rc |-> SP_ERR_FAIL, w |-> w]
    ELSE [rc |-> SP_OK, w |-> [w EXCEPT !.config = w.hw, !.applied = w.hw]]

\* enum sp_return sp_set_config(struct sp_port *port, const struct sp_port_config *config)
sp_set_config(w, fail) ==
    IF ~w.p \/ w.fd = NoFd \/ ~w.c THEN [rc |-> SP_ERR_ARG, w |-> w]
    ELSE IF fail THEN [rc |-> SP_ERR_FAIL, w |-> w]
    ELSE LET h == MergeConfig(w.hw, w.config) IN
         [rc |-> SP_OK, w |-> [w EXCEPT !.hw = h, !.applied = h]]

\* enum sp_return sp_set_baudrate(struct sp_port *port, int baudrate): writes
\* the rate to the device at once
sp_set_baudrate(w, baudrate, fail) ==
    IF ~w.p \/ w.fd = NoFd \/ baudrate < 0 THEN [rc |-> SP_ERR_ARG, w |-> w]
    ELSE IF fail THEN [rc |-> SP_ERR_FAIL, w |-> w]
    ELSE [rc |-> SP_OK,
          w  |-> [w EXCEPT !.hw["baudrate"] = EffectiveBaud(baudrate)]]

\* enum sp_return sp_set_config_<field>(struct sp_port_config *config, int value)
sp_set_config_field(w, f, value) ==
    IF ~w.c THEN [rc |-> SP_ERR_ARG, w |-> w]
    ELSE [rc |-> SP_OK, w |-> [w EXCEPT !.config[f] = value]]

\* enum sp_return sp_get_config_<field>(const struct sp_port_config *config, int *value)
sp_get_config_field(w, f) ==
    IF ~w.c THEN [rc |-> SP_ERR_ARG, val |-> 0]
    ELSE [rc |-> SP_OK, val |-> w.config[f]]

\* enum sp_return sp_set_config_flowcontrol(struct sp_port_config *config,
\*                                          enum sp_flowcontrol flowcontrol)
sp_set_config_flowcontrol(w, flowcontrol) ==
    IF ~w.c \/ flowcontrol < 0 \/ flowcontrol > FLOWCONTROL_DTRDSR
    THEN [rc |-> SP_ERR_ARG, w |-> w]
    ELSE LET k == w.config
             xon == IF flowcontrol = FLOWCONTROL_XONXOFF
                    THEN XONXOFF_INOUT ELSE XONXOFF_DISABLED
             rts == IF flowcontrol = FLOWCONTROL_RTSCTS THEN RTS_FLOW_CONTROL
                    ELSE IF k["rts"] = RTS_FLOW_CONTROL THEN RTS_ON
                    ELSE k["rts"]
             cts == IF flowcontrol = FLOWCONTROL_RTSCTS
                    THEN CTS_FLOW_CONTROL ELSE CTS_IGNORE
             dtr == IF flowcontrol = FLOWCONTROL_DTRDSR THEN DTR_FLOW_CONTROL
                    ELSE IF k["dtr"] = DTR_FLOW_CONTROL THEN DTR_ON
                    ELSE k["dtr"]
             dsr == IF flowcontrol = FLOWCONTROL_DTRDSR
                    THEN DSR_FLOW_CONTROL ELSE DSR_IGNORE
         IN [rc |-> SP_OK,
             w  |-> [w EXCEPT !.config["xon_xoff"] = xon,
                              !.config["rts"] = rts, !.config["cts"] = cts,
                              !.config["dtr"] = dtr, !.config["dsr"] = dsr]]

\* enum sp_return sp_get_port_handle(const struct sp_port *port, void *result_ptr)
sp_get_port_handle(w, fail) ==
    IF ~w.p \/ w.fd = NoFd THEN [rc |-> SP_ERR_ARG, w |-> w]
    ELSE IF fail THEN [rc |-> SP_ERR_FAIL, w |-> w]
    ELSE [rc |-> SP_OK, w |-> w]

\* the smaller of two numbers
Min(a, b) == IF a < b THEN a ELSE b

\* what happens outside the program during one transfer or provider call:
\* the bytes that arrive (or, for a write, leave the output buffer) while the
\* call waits, and the code the provider returns if the system call fails
\* (SP_OK: it does not fail)
Envs ==
    [more : 0..1, code : {SP_OK}]
        \cup [more : {0}, code : {SP_ERR_FAIL, SP_ERR_SUPP - 1}]

\* enum sp_return sp_nonblocking_read(struct sp_port *port, void *buf, size_t count)
sp_nonblocking_read(w, count, e) ==
    LET called == [w EXCEPT !.xfers = @ + 1] IN
    IF ~w.p \/ w.fd = NoFd THEN [c |-> SP_ERR_ARG, w |-> called, blocked |-> FALSE]
    ELSE IF e.code < 0 THEN [c |-> e.code, w |-> called, blocked |-> FALSE]
    ELSE LET n == Min(count, w.rx) IN
         [c |-> n, w |-> [called EXCEPT !.rx = @ - n], blocked |-> FALSE]

\* enum sp_return sp_blocking_read(struct sp_port *port, void *buf, size_t count,
\*                                 unsigned int timeout_ms): returns when count
\* bytes are read or the timeout elapses; a timeout of 0 waits indefinitely
sp_blocking_read(w, count, timeout_ms, e) ==
    LET called == [w EXCEPT !.xfers = @ + 1] IN
    IF ~w.p \/ w.fd = NoFd THEN [c |-> SP_ERR_ARG, w |-> called, blocked |-> FALSE]
    ELSE IF e.code < 0 THEN [c |-> e.code, w |-> called, blocked |-> FALSE]
    ELSE LET n == Min(count, w.rx + e.more) IN
         [c |-> n, w |-> [called EXCEPT !.rx = w.rx + e.more - n],
          blocked |-> timeout_ms = 0 /\ n < count]

\* enum sp_return sp_nonblocking_write(struct sp_port *port, const void *buf, size_t count)
sp_nonblocking_write(w, count, e) ==
    LET called == [w EXCEPT !.xfers = @ + 1] IN
    IF ~w.p \/ w.fd = NoFd THEN [c |-> SP_ERR_ARG, w |-> called, blocked |-> FALSE]
    ELSE IF e.code < 0 THEN [c |-> e.code, w |-> called, blocked |-> FALSE]
    ELSE LET n == Min(count, TxCap - w.tx) IN
         [c |-> n, w |-> [called EXCEPT !.tx = @ + n], blocked |-> FALSE]

\* enum sp_return sp_blocking_write(struct sp_port *port, const void *buf, size_t count,
\*                                  unsigned int timeout_ms)
sp_blocking_write(w, count, timeout_ms, e) ==
    LET called == [w EXCEPT !.xfers = @ + 1] IN
    IF ~w.p \/ w.fd = NoFd THEN [c |-> SP_ERR_ARG, w |-> called, blocked |-> FALSE]
    ELSE IF e.code < 0 THEN [c |-> e.code, w |-> called, blocked |-> FALSE]
    ELSE LET sent == Min(e.more, w.tx)
             n    == Min(count, TxCap - w.tx + sent)
         IN [c |-> n, w |-> [called EXCEPT !.tx = w.tx - sent + n],
             blocked |-> timeout_ms = 0 /\ n < count]

\* enum sp_return sp_input_waiting(struct sp_port *port)
sp_input_waiting(w, e) ==
    IF ~w.p \/ w.fd = NoFd THEN SP_ERR_ARG
    ELSE IF e.code < 0 THEN e.code
    ELSE w.rx

\* enum sp_return sp_output_waiting(struct sp_port *port)
sp_output_waiting(w, e) ==
    IF ~w.p \/ w.fd = NoFd THEN SP_ERR_ARG
    ELSE IF e.code < 0 THEN e.code
    ELSE w.tx

\* enum sp_return sp_flush(struct sp_port *port, enum sp_buffer buffers), with
\* SP_BUF_BOTH
sp_flush(w, e) ==
    IF ~w.p \/ w.fd = NoFd THEN [rc |-> SP_ERR_ARG, w |-> w]
    ELSE IF e.code < 0 THEN [rc |-> e.code, w |-> w]
    ELSE [rc |-> SP_OK, w |-> [w EXCEPT !.rx = 0, !.tx = 0]]

\* enum sp_return sp_drain(struct sp_port *port): waits until the output
\* buffer is transmitted
sp_drain(w, e) ==
    IF ~w.p \/ w.fd = NoFd THEN [rc |-> SP_ERR_ARG, w |-> w]
    ELSE IF e.code < 0 THEN [rc |-> e.code, w |-> w]
    ELSE [rc |-> SP_OK, w |-> [w EXCEPT !.tx = 0]]

\* the errors of package os
ErrInvalid == "os.ErrInvalid"
PathError == "os.PathError"

\* func (f *File) Read(b []byte) (n int, err error) of package os, on the
\* handle Open wrapped: a read that waits until the device has data; with an
\* empty b it returns at once
os_File_Read(w, count, e) ==
    IF w.file = NoFd
    THEN [n |-> 0, err |-> ErrInvalid, w |-> w, blocked |-> FALSE]
    ELSE IF count = 0
    THEN [n |-> 0, err |-> Nil, w |-> w, blocked |-> FALSE]
    ELSE LET called == [w EXCEPT !.xfers = @ + 1] IN
         IF w.file \notin w.openFds \/ e.code < 0
         THEN [n |-> 0, err |-> PathError, w |-> called, blocked |-> FALSE]
         ELSE LET n == Min(count, w.rx + e.more) IN
              [n |-> n, err |-> Nil,
               w |-> [called EXCEPT !.rx = w.rx + e.more - n],
               blocked |-> n = 0]

\* func (f *File) Write(b []byte) (n int, err error) of package os: a write
\* that waits until every byte is taken
os_File_Write(w, count, e) ==
    IF w.file = NoFd
    THEN [n |-> 0, err |-> ErrInvalid, w |-> w, blocked |-> FALSE]
    ELSE LET called == [w EXCEPT !.xfers = @ + 1] IN
         IF w.file \notin w.openFds \/ e.code < 0
         THEN [n |-> 0, err |-> PathError, w |-> called, blocked |-> FALSE]
         ELSE LET sent == Min(e.more, w.tx)
                  n    == Min(count, TxCap - w.tx + sent)
              IN [n |-> n, err |-> Nil,
                  w |-> [called EXCEPT !.tx = w.tx - sent + n],
                  blocked |-> n < count]

\* func (f *File) WriteString(s string) (n int, err error) of package os
os_File_WriteString(w, count, e) == os_File_Write(w, count, e)

(***************************************************************************)
(* The methods of Port.  Each operator takes the state before the call,    *)
(* the arguments and the set F of provider calls that fail during the      *)
(* call, and gives the state after the call and the error returned.        *)
(***************************************************************************)
\* func (p *Port) Close() error
Close(w, F) ==
    LET r == sp_close(w, "sp_close" \in F) IN
    [w |-> [r.w EXCEPT !.opened = FALSE], err |-> errmsg(r.rc)]

\* free without its test of p.opened: it calls sp_close every time
free_unguarded(w, F) ==
    LET w1 == sp_close(w, "sp_close" \in F).w
        w2 == IF w1.p THEN sp_free_port(w1) ELSE w1
        w3 == IF w2.c THEN sp_free_config(w2) ELSE w2
    IN [w |-> [w3 EXCEPT !.opened = FALSE, !.p = FALSE, !.c = FALSE],
        err |-> Nil]

\* free without its tests of p.p and p.c: it releases both every time
free_unchecked(w, F) ==
    LET w1 == IF w.opened THEN sp_close(w, "sp_close" \in F).w ELSE w
        w2 == sp_free_port(w1)
        w3 == sp_free_config(w2)
    IN [w |-> [w3 EXCEPT !.opened = FALSE, !.p = FALSE, !.c = FALSE],
        err |-> Nil]

\* func (p *Port) free()
free(w, F) ==
    LET w1 == IF w.opened THEN sp_close(w, "sp_close" \in F).w ELSE w
        w2 == IF w1.p THEN sp_free_port(w1) ELSE w1
        w3 == IF w2.c THEN sp_free_config(w2) ELSE w2
    IN [w |-> [w3 EXCEPT !.opened = FALSE, !.p = FALSE, !.c = FALSE],
        err |-> Nil]

\* SetBaudrate storing the rate in *p.c, as the other setters do
SetBaudrate_intoConfig(w, baudrate, F) ==
    LET r == sp_set_config_field(w, "baudrate", baudrate) IN
    [w |-> [r.w EXCEPT !.reqBaud = baudrate], err |-> errmsg(r.rc)]

\* func (p *Port) SetBaudrate(baudrate int) error
SetBaudrate(w, baudrate, F) ==
    LET r == sp_set_baudrate(w, baudrate, "sp_set_baudrate" \in F) IN
    [w |-> [r.w EXCEPT !.reqBaud = baudrate], err |-> errmsg(r.rc)]

\* the setters that write one field of *p.c
SetConfigField(w, f, value) ==
    LET r == sp_set_config_field(w, f, value) IN
    [w |-> r.w, err |-> errmsg(r.rc)]

\* func (p *Port) SetDataBits(bits int) error
SetDataBits(w, bits) == SetConfigField(w, "bits", bits)

\* func (p *Port) SetParity(parity int) error
SetParity(w, parity) == SetConfigField(w, "parity", parity)

\* func (p *Port) SetStopBits(stopbits int) error
SetStopBits(w, stopbits) == SetConfigField(w, "stopbits", stopbits)

\* func (p *Port) SetRTS(rts int) error
SetRTS(w, rts) == SetConfigField(w, "rts", rts)

\* func (p *Port) SetCTS(cts int) error
SetCTS(w, cts) == SetConfigField(w, "cts", cts)

\* func (p *Port) SetDTR(dtr int) error
SetDTR(w, dtr) == SetConfigField(w, "dtr", dtr)

\* func (p *Port) SetDSR(dsr int) error
SetDSR(w, dsr) == SetConfigField(w, "dsr", dsr)

\* func (p *Port) SetXonXoff(xon int) error
SetXonXoff(w, xon) == SetConfigField(w, "xon_xoff", xon)

\* func (p *Port) SetFlowControl(xon int) error
SetFlowControl(w, xon) ==
    LET r == sp_set_config_flowcontrol(w, xon) IN
    [w |-> r.w, err |-> errmsg(r.rc)]

\* a getter that reads the settings last committed instead of *p.c
GetConfigField_applied(w, f) ==
    IF ~w.c THEN [val |-> 0, err |-> InvalidArgumentsError]
    ELSE [val |-> w.applied[f], err |-> Nil]

\* the getters: each reads one field of *p.c
GetConfigField(w, f) ==
    LET r == sp_get_config_field(w, f) IN
    IF errmsg(r.rc) # Nil THEN [val |-> 0, err |-> errmsg(r.rc)]
    ELSE [val |-> r.val, err |-> Nil]

\* func (p *Port) Baudrate() (int, error)
Baudrate(w) == GetConfigField(w, "baudrate")

\* func (p *Port) DataBits() (int, error)
DataBits(w) == GetConfigField(w, "bits")

\* func (p *Port) Parity() (int, error)
Parity(w) == GetConfigField(w, "parity")

\* func (p *Port) StopBits() (int, error)
StopBits(w) == GetConfigField(w, "stopbits")

\* func (p *Port) RTS() (int, error)
RTS(w) == GetConfigField(w, "rts")

\* func (p *Port) CTS() (int, error)
CTS(w) == GetConfigField(w, "cts")

\* func (p *Port) DTR() (int, error)
DTR(w) == GetConfigField(w, "dtr")

\* func (p *Port) DSR() (int, error)
DSR(w) == GetConfigField(w, "dsr")

\* func (p *Port) XonXoff() (int, error)
XonXoff(w) == GetConfigField(w, "xon_xoff")

\* what the getter of field f returns
Getter(w, f) ==
    CASE f = "baudrate" -> Baudrate(w)
      [] f = "bits"     -> DataBits(w)
      [] f = "parity"   -> Parity(w)
      [] f = "stopbits" -> StopBits(w)
      [] f = "rts"      -> RTS(w)
      [] f = "cts"      -> CTS(w)
      [] f = "dtr"      -> DTR(w)
      [] f = "dsr"      -> DSR(w)
      [] f = "xon_xoff" -> XonXoff(w)

\* func (p *Port) ApplyConfig() error
ApplyConfig(w, F) ==
    LET r == sp_set_config(w, "sp_set_config" \in F) IN
    [w   |-> IF r.rc = SP_OK THEN [r.w EXCEPT !.reqBaud = 0] ELSE r.w,
     err |-> errmsg(r.rc)]

\* the return of ApplyRawConfig when the call s, the last of calledSoFar,
\* returned an error
RawReturn(s, calledSoFar) == [w |-> s.w, err |-> s.err, made |-> calledSoFar]

\* the last statement of ApplyRawConfig, after the calls in calledSoFar
RawCommit(w, F, calledSoFar) ==
    LET r == sp_set_config(w, "sp_set_config" \in F) IN
    [w    |-> IF r.rc = SP_OK THEN [r.w EXCEPT !.reqBaud = 0] ELSE r.w,
     err  |-> errmsg(r.rc),
     made |-> Append(calledSoFar, "sp_set_config")]

\* ApplyRawConfig as the SerialPort type has it, which sets the pins and
\* XON/XOFF too
ApplyRawConfig_pins(w, F) ==
    LET s1 == SetDataBits(w, 8)
        s2 == SetParity(s1.w, PARITY_NONE)
        s3 == SetStopBits(s2.w, 1)
        s4 == SetRTS(s3.w, RTS_OFF)
        s5 == SetCTS(s4.w, CTS_IGNORE)
        s6 == SetDTR(s5.w, DTR_OFF)
        s7 == SetDSR(s6.w, DSR_IGNORE)
        s8 == SetXonXoff(s7.w, XONXOFF_DISABLED)
        s9 == SetFlowControl(s8.w, FLOWCONTROL_NONE)
        m  == <<"SetDataBits", "SetParity", "SetStopBits", "SetRTS",
                "SetCTS", "SetDTR", "SetDSR", "SetXonXoff",
                "SetFlowControl">>
    IN IF s1.err # Nil THEN RawReturn(s1, SubSeq(m, 1, 1))
       ELSE IF s2.err # Nil THEN RawReturn(s2, SubSeq(m, 1, 2))
       ELSE IF s3.err # Nil THEN RawReturn(s3, SubSeq(m, 1, 3))
       ELSE IF s4.err # Nil THEN RawReturn(s4, SubSeq(m, 1, 4))
       ELSE IF s5.err # Nil THEN RawReturn(s5, SubSeq(m, 1, 5))
       ELSE IF s6.err # Nil THEN RawReturn(s6, SubSeq(m, 1, 6))
       ELSE IF s7.err # Nil THEN RawReturn(s7, SubSeq(m, 1, 7))
       ELSE IF s8.err # Nil THEN RawReturn(s8, SubSeq(m, 1, 8))
       ELSE IF s9.err # Nil THEN RawReturn(s9, m)
       ELSE RawCommit(s9.w, F, m)

\* func (p *Port) ApplyRawConfig() (err error)
ApplyRawConfig(w, F) ==
    LET s1 == SetDataBits(w, 8)
        s2 == SetParity(s1.w, PARITY_NONE)
        s3 == SetStopBits(s2.w, 1)
        s4 == SetFlowControl(s3.w, FLOWCONTROL_NONE)
        m  == <<"SetDataBits", "SetParity", "SetStopBits", "SetFlowControl">>
    IN IF s1.err # Nil THEN RawReturn(s1, SubSeq(m, 1, 1))
       ELSE IF s2.err # Nil THEN RawReturn(s2, SubSeq(m, 1, 2))
       ELSE IF s3.err # Nil THEN RawReturn(s3, SubSeq(m, 1, 3))
       ELSE IF s4.err # Nil THEN RawReturn(s4, m)
       ELSE RawCommit(s4.w, F, m)

\* the steps of open between C.sp_get_config and C.sp_get_port_handle, on
\* the state w that sp_get_config left: the setters and ApplyConfig, whose
\* returned errors open does not look at.  Gives the state after them and
\* the errors they returned.
OpenSteps(w, opt, F) ==
    LET \* set baudrate
        b  == IF opt.Baudrate = 0 THEN [w |-> w, err |-> Nil]
              ELSE SetBaudrate(w, opt.Baudrate, F)
        \* set data bits
        d  == IF opt.DataBits = 0 THEN SetDataBits(b.w, 8)
              ELSE SetDataBits(b.w, opt.DataBits)
        \* set stop bits
        s  == IF opt.StopBits = 0 THEN SetStopBits(d.w, 1)
              ELSE SetStopBits(d.w, opt.StopBits)
        \* set parity
        y  == SetParity(s.w, opt.Parity)
        \* set flow control
        r  == SetRTS(y.w, RTS_OFF)
        t  == SetDTR(r.w, DTR_OFF)
        fc == SetFlowControl(t.w, opt.FlowControl)
        \* apply config
        a  == ApplyConfig(fc.w, F)
    IN [w |-> a.w,
        ignored |-> {b.err, d.err, s.err, y.err, r.err, t.err, fc.err,
                     a.err} \ {Nil}]

\* open without the p.Close() of its error paths
open_leaky(w, opt, F) ==
    LET mode == IF opt.Mode # 0 THEN opt.Mode ELSE MODE_READ + MODE_WRITE
        o  == sp_open(w, mode, "sp_open" \in F)
        g  == sp_get_config(o.w, "sp_get_config" \in F)
        a  == OpenSteps([g.w EXCEPT !.reqBaud = 0], opt, F)
        h  == sp_get_port_handle(a.w, "sp_get_port_handle" \in F)
    IN IF errmsg(o.rc) # Nil
           THEN [w |-> o.w, err |-> errmsg(o.rc), ignored |-> {}]
       ELSE IF errmsg(g.rc) # Nil
           THEN [w |-> g.w, err |-> errmsg(g.rc), ignored |-> {}]
       ELSE IF errmsg(h.rc) # Nil
           THEN [w |-> h.w, err |-> errmsg(h.rc), ignored |-> a.ignored]
       ELSE [w |-> [h.w EXCEPT !.file = h.w.fd, !.opened = TRUE,
                               !.osFiles.live = @ \cup {h.w.fd}],
             err |-> Nil, ignored |-> a.ignored]

\* func (p *Port) open(opt *Options) (err error).  ignored: the errors the
\* setters and ApplyConfig returned, which open drops.
open(w, opt, F) ==
    LET mode == IF opt.Mode # 0 THEN opt.Mode ELSE MODE_READ + MODE_WRITE
        o  == sp_open(w, mode, "sp_open" \in F)
        g  == sp_get_config(o.w, "sp_get_config" \in F)
        a  == OpenSteps([g.w EXCEPT !.reqBaud = 0], opt, F)
        h  == sp_get_port_handle(a.w, "sp_get_port_handle" \in F)
    IN IF errmsg(o.rc) # Nil
           THEN [w |-> o.w, err |-> errmsg(o.rc), ignored |-> {}]
       ELSE IF errmsg(g.rc) # Nil
           THEN [w |-> Close(g.w, F).w, err |-> errmsg(g.rc), ignored |-> {}]
       ELSE IF errmsg(h.rc) # Nil
           THEN [w |-> Close(h.w, F).w, err |-> errmsg(h.rc),
                 ignored |-> a.ignored]
       ELSE [w |-> [h.w EXCEPT !.file = h.w.fd, !.opened = TRUE,
                               !.osFiles.live = @ \cup {h.w.fd}],
             err |-> Nil, ignored |-> a.ignored]

\* func (p *Port) Open(opt Options) error
Open(w, opt, F) == open(w, opt, F)

\* Go's integer division, which truncates toward zero
Quot(a, b) == IF a >= 0 THEN a \div b ELSE -((-a) \div b)

\* millis with the time left rounded up to the next whole millisecond
Millis_roundUp(deadline, now) ==
    IF deadline - now > 0
    THEN (deadline - now + Millisecond - 1) \div Millisecond
    ELSE Quot(deadline - now, Millisecond)

\* delta := deadline.Sub(time.Now())
\* millis := delta.Nanoseconds() / int64(time.Millisecond)
Millis(deadline, now) == Quot(deadline - now, Millisecond)

\* the return after a transfer, with a transfer of no byte made an error
TransferResult_zeroIsError(r, prim, now, timeout) ==
    [w |-> r.w, n |-> IF r.c < 0 THEN 0 ELSE r.c,
     err |-> IF r.c < 0 THEN errmsg(r.c)
             ELSE IF r.c = 0 THEN SystemError ELSE Nil,
     prim |-> prim, now |-> now, timeout |-> timeout, c |-> r.c,
     blocked |-> r.blocked]

\* the return of Read or Write after a provider transfer that gave c, issued
\* at the instant now that time.Now() returned
\*     if c < 0 { return 0, errmsg(c) }
\*     return int(c), nil
TransferResult(r, prim, now, timeout) ==
    [w |-> r.w, n |-> IF r.c < 0 THEN 0 ELSE r.c,
     err |-> IF r.c < 0 THEN errmsg(r.c) ELSE Nil,
     prim |-> prim, now |-> now, timeout |-> timeout, c |-> r.c,
     blocked |-> r.blocked]

\* the return of Read, Write or WriteString through p.f: time.Now() is not
\* called
FileResult(r) ==
    [w |-> r.w, n |-> r.n, err |-> r.err, prim |-> "file", now |-> 0,
     timeout |-> 0, c |-> r.n, blocked |-> r.blocked]

\* unsafe.Pointer(&b[0]) with len(b) = 0: the index is out of range and the
\* call ends in a run-time panic, before the provider is called
IndexPanic(w, now) ==
    [w |-> w, n |-> 0, err |-> Nil, prim |-> "panic", now |-> now,
     timeout |-> 0, c |-> 0, blocked |-> FALSE]

\* Read issuing the non-blocking transfer when no deadline is set
Read_poll(w, count, now, e) ==
    IF w.readDeadline = ZeroTime
    THEN TransferResult(sp_nonblocking_read(w, count, e), "nonblocking",
                        now, 0)
    ELSE LET millis == Millis(w.readDeadline, now) IN
         IF millis <= 0
         THEN TransferResult(sp_nonblocking_read(w, count, e),
                             "nonblocking", now, 0)
         ELSE TransferResult(sp_blocking_read(w, count, millis, e),
                             "blocking", now, millis)

\* Read testing millis < 0 instead of millis <= 0
Read_zeroTimeout(w, count, now, e) ==
    IF w.readDeadline = ZeroTime
    THEN FileResult(os_File_Read(w, count, e))
    ELSE LET millis == Millis(w.readDeadline, now) IN
         IF millis < 0
         THEN TransferResult(sp_nonblocking_read(w, count, e),
                             "nonblocking", now, 0)
         ELSE TransferResult(sp_blocking_read(w, count, millis, e),
                             "blocking", now, millis)

\* Read from "var c int32" to its return: the transfer that millis chooses
ReadTransfer(w, count, millis, now, e) ==
    IF count = 0 THEN IndexPanic(w, now)
    ELSE IF millis <= 0
    THEN TransferResult(sp_nonblocking_read(w, count, e), "nonblocking",
                        now, 0)
    ELSE TransferResult(sp_blocking_read(w, count, millis, e), "blocking",
                        now, millis)

\* func (p *Port) Read(b []byte) (int, error), with len(b) = count, at the
\* instant now
Read(w, count, now, e) ==
    IF w.readDeadline = ZeroTime
    THEN FileResult(os_File_Read(w, count, e))
    ELSE ReadTransfer(w, count, Millis(w.readDeadline, now), now, e)

\* Write from "var c int32" to its return
WriteTransfer(w, count, millis, now, e) ==
    IF count = 0 THEN IndexPanic(w, now)
    ELSE IF millis <= 0
    THEN TransferResult(sp_nonblocking_write(w, count, e), "nonblocking",
                        now, 0)
    ELSE TransferResult(sp_blocking_write(w, count, millis, e), "blocking",
                        now, millis)

\* func (p *Port) Write(b []byte) (int, error)
Write(w, count, now, e) ==
    IF w.writeDeadline = ZeroTime
    THEN FileResult(os_File_Write(w, count, e))
    ELSE WriteTransfer(w, count, Millis(w.writeDeadline, now), now, e)

\* func (p *Port) WriteString(s string) (int, error), with len(s) = count
WriteString(w, count, e) == FileResult(os_File_WriteString(w, count, e))

\* func (p *Port) SetDeadline(t time.Time) error
SetDeadline(w, t) ==
    [w |-> [w EXCEPT !.readDeadline = t, !.writeDeadline = t], err |-> Nil]

\* SetReadDeadline writing both deadlines, as SetDeadline does
SetReadDeadline_both(w, t) ==
    [w |-> [w EXCEPT !.readDeadline = t, !.writeDeadline = t], err |-> Nil]

\* func (p *Port) SetReadDeadline(t time.Time) error
SetReadDeadline(w, t) == [w |-> [w EXCEPT !.readDeadline = t], err |-> Nil]

\* SetWriteDeadline writing both deadlines, as SetDeadline does
SetWriteDeadline_both(w, t) ==
    [w |-> [w EXCEPT !.readDeadline = t, !.writeDeadline = t], err |-> Nil]

\* func (p *Port) SetWriteDeadline(t time.Time) error
SetWriteDeadline(w, t) == [w |-> [w EXCEPT !.writeDeadline = t], err |-> Nil]

\* the return of InputWaiting or OutputWaiting after the provider gave c
WaitingResult(w, res) ==
    [w |-> w, n |-> IF res < 0 THEN 0 ELSE res,
     err |-> IF res < 0 THEN errmsg(res) ELSE Nil,
     prim |-> "none", now |-> 0, timeout |-> 0, c |-> res,
     blocked |-> FALSE]

\* func (p *Port) InputWaiting() (int, error)
InputWaiting(w, e) == WaitingResult(w, sp_input_waiting(w, e))

\* func (p *Port) OutputWaiting() (int, error)
OutputWaiting(w, e) == WaitingResult(w, sp_output_waiting(w, e))

\* the return of Flush or Drain: errmsg of the provider's code
StatusResult(r) ==
    [w |-> r.w, n |-> 0, err |-> errmsg(r.rc), prim |-> "none", now |-> 0,
     timeout |-> 0, c |-> r.rc, blocked |-> FALSE]

\* func (p *Port) Flush() error
Flush(w, e) == StatusResult(sp_flush(w, e))

\* func (p *Port) Sync() error
Sync(w, e) == Flush(w, e)

\* func (p *Port) Drain() error
Drain(w, e) == StatusResult(sp_drain(w, e))

(***************************************************************************)
(* Inputs.                                                                 *)
(***************************************************************************)
\* the settings a device can have before the program opens it
DeviceConfigs ==
    {[f \in Fields |->
        CASE f = "baudrate" -> DefaultBaudrate
          [] f = "bits"     -> 8
          [] f = "parity"   -> PARITY_NONE
          [] f = "stopbits" -> 1
          [] f = "rts"      -> RTS_ON
          [] f = "cts"      -> CTS_IGNORE
          [] f = "dtr"      -> DTR_ON
          [] f = "dsr"      -> DSR_IGNORE
          [] f = "xon_xoff" -> XONXOFF_DISABLED],
     [f \in Fields |->
        CASE f = "baudrate" -> FastBaudrate
          [] f = "bits"     -> 7
          [] f = "parity"   -> PARITY_ODD
          [] f = "stopbits" -> 2
          [] f = "rts"      -> RTS_FLOW_CONTROL
          [] f = "cts"      -> CTS_FLOW_CONTROL
          [] f = "dtr"      -> DTR_ON
          [] f = "dsr"      -> DSR_IGNORE
          [] f = "xon_xoff" -> XONXOFF_INOUT]}

\* type Options struct: the values Open is called with
OptionsSet ==
    {[Mode |-> 0, Baudrate |-> 0, DataBits |-> 0, StopBits |-> 0,
      Parity |-> 0, FlowControl |-> 0],
     [Mode |-> 0, Baudrate |-> FastBaudrate, DataBits |-> 0, StopBits |-> 0,
      Parity |-> 0, FlowControl |-> 0],
     [Mode |-> MODE_READ, Baudrate |-> DefaultBaudrate, DataBits |-> 7,
      StopBits |-> 2, Parity |-> PARITY_ODD,
      FlowControl |-> FLOWCONTROL_RTSCTS]}

\* which provider calls fail during one API call
FaultSets ==
    {{}, {"sp_open"}, {"sp_get_config"}, {"sp_set_baudrate"},
     {"sp_set_config"}, {"sp_get_port_handle"},
     {"sp_get_config", "sp_close"}}

\* the values the setter of each field is called with
FieldInputs(f) ==
    CASE f = "bits"     -> {7, 8}
      [] f = "parity"   -> {PARITY_NONE, PARITY_ODD}
      [] f = "stopbits" -> {1, 2}
      [] f = "rts"      -> {RTS_OFF, RTS_ON}
      [] f = "cts"      -> {CTS_IGNORE, CTS_FLOW_CONTROL}
      [] f = "dtr"      -> {DTR_OFF, DTR_ON}
      [] f = "dsr"      -> {DSR_IGNORE, DSR_FLOW_CONTROL}
      [] f = "xon_xoff" -> {XONXOFF_DISABLED, XONXOFF_INOUT}

(***************************************************************************)
(* Initial state: a Port as PortByName or ListPorts returns it              *)
(* (newSerialPort succeeded), on a device with some earlier settings.      *)
(***************************************************************************)
Init ==
    /\ p = TRUE
    /\ c = TRUE
    /\ config = NewConfig
    /\ opened = FALSE
    /\ fd = NoFd
    /\ hw \in DeviceConfigs
    /\ nfd = 0
    /\ openMode = 0
    /\ openFds = {}
    /\ osFiles = [live |-> {}, closed |-> {}, stale |-> FALSE]
    /\ closeCalls = 0
    /\ doubleClose = FALSE
    /\ applied = NewConfig
    /\ reqBaud = 0
    /\ life = "Created"
    /\ ret = [op |-> "newSerialPort", arg |-> 0, err |-> Nil]
    /\ calls = 0
    /\ pcClose = [at |-> "idle", err |-> Nil]
    /\ pcFree = "idle"
    /\ file = NoFd
    /\ readDeadline = ZeroTime
    /\ writeDeadline = ZeroTime
    /\ rx = 0
    /\ tx = 0
    /\ xfers = 0
    /\ portFrees = 0
    /\ configFrees = 0
    /\ io = [op |-> "none", prim |-> "none", now |-> 0, timeout |-> 0,
             c |-> 0, n |-> 0, err |-> Nil]
    /\ panicked = FALSE
    /\ made = <<>>
    /\ reader = NoCall
    /\ writer = NoCall
    /\ devs = <<>>
    /\ ports = <<>>
    /\ copies = {}
    /\ lp = [at |-> "idle", j |-> 0, n |-> 0, list |-> "none", err |-> Nil]
    /\ byName = [at |-> "idle", op |-> "none", name |-> "", found |-> FALSE,
              port |-> [native |-> 0, dev |-> "", opened |-> FALSE],
              err |-> Nil]
    /\ meta = [op |-> "none", a |-> 0, b |-> 0, s |-> "", err |-> Nil]

(***************************************************************************)
(* Actions: one per API call.                                              *)
(***************************************************************************)
\* the Port and the provider become w
Becomes(w) ==
    /\ p' = w.p
    /\ c' = w.c
    /\ config' = w.config
    /\ opened' = w.opened
    /\ fd' = w.fd
    /\ hw' = w.hw
    /\ nfd' = w.nfd
    /\ openMode' = w.openMode
    /\ openFds' = w.openFds
    /\ osFiles' = w.osFiles
    /\ closeCalls' = w.closeCalls
    /\ doubleClose' = w.doubleClose
    /\ applied' = w.applied
    /\ reqBaud' = w.reqBaud
    /\ file' = w.file
    /\ readDeadline' = w.readDeadline
    /\ writeDeadline' = w.writeDeadline
    /\ rx' = w.rx
    /\ tx' = w.tx
    /\ xfers' = w.xfers
    /\ portFrees' = w.portFrees
    /\ configFrees' = w.configFrees

\* the state after a call that leaves the Port and the provider as in r.w
Return(r, op, arg, newLife) ==
    /\ calls < MaxCalls
    /\ ~panicked
    /\ Becomes(r.w)
    /\ life' = newLife
    /\ ret' = [op |-> op, arg |-> arg, err |-> r.err]
    /\ calls' = calls + 1
    /\ made' = IF "made" \in DOMAIN r THEN r.made ELSE <<>>
    /\ UNCHANGED <<pcClose, pcFree, io, panicked, threadVars, listVars>>

CallOpen ==
    \E opt \in OptionsSet, F \in FaultSets :
        LET r == Open(World, opt, F) IN
        Return(r, "Open", opt, IF r.err = Nil THEN "Opened" ELSE life)

CallClose ==
    \E F \in {{}, {"sp_close"}} :
        Return(Close(World, F), "Close", life,
               IF life = "Opened" THEN "Closed" ELSE life)

CallFree ==
    \E F \in {{}, {"sp_close"}} :
        Return(free(World, F), "free", life, "Freed")

CallApplyConfig ==
    \E F \in {{}, {"sp_set_config"}} :
        Return(ApplyConfig(World, F), "ApplyConfig", 0, life)

CallApplyRawConfig ==
    \E F \in {{}, {"sp_set_config"}} :
        Return(ApplyRawConfig(World, F), "ApplyRawConfig", 0, life)

\* a call of one of the setters
Setter ==
    \/ \E b \in {DefaultBaudrate, OddBaudrate, FastBaudrate},
          F \in {{}, {"sp_set_baudrate"}} :
           Return(SetBaudrate(World, b, F), "SetBaudrate", b, life)
    \/ \E v \in FieldInputs("bits") :
           Return(SetDataBits(World, v), "SetDataBits", v, life)
    \/ \E v \in FieldInputs("parity") :
           Return(SetParity(World, v), "SetParity", v, life)
    \/ \E v \in FieldInputs("stopbits") :
           Return(SetStopBits(World, v), "SetStopBits", v, life)
    \/ \E v \in FieldInputs("rts") :
           Return(SetRTS(World, v), "SetRTS", v, life)
    \/ \E v \in FieldInputs("cts") :
           Return(SetCTS(World, v), "SetCTS", v, life)
    \/ \E v \in FieldInputs("dtr") :
           Return(SetDTR(World, v), "SetDTR", v, life)
    \/ \E v \in FieldInputs("dsr") :
           Return(SetDSR(World, v), "SetDSR", v, life)
    \/ \E v \in FieldInputs("xon_xoff") :
           Return(SetXonXoff(World, v), "SetXonXoff", v, life)
    \/ \E v \in FLOWCONTROL_NONE..(FLOWCONTROL_DTRDSR + 1) :
           Return(SetFlowControl(World, v), "SetFlowControl", v, life)

Next ==
    \/ CallOpen
    \/ CallClose
    \/ CallFree
    \/ Setter
    \/ CallApplyConfig
    \/ CallApplyRawConfig

Spec == Init /\ [][Next]_vars

(***************************************************************************)
(* Close and free taken step by step, for an explicit Close in one         *)
(* goroutine while the finalizer runs free in another.  Nothing in Port    *)
(* synchronises the two.  The steps are the read of p.opened, the          *)
(* provider close call and the writes that end each method.                *)
(***************************************************************************)
\* the one Open of this scenario, before either goroutine starts
ConcOpen ==
    /\ calls = 0
    /\ CallOpen

\* Close: err := errmsg(C.sp_close(p.p))
CloseCallsProvider ==
    /\ life = "Opened"
    /\ pcClose.at = "idle"
    /\ \E fail \in BOOLEAN :
        LET r == sp_close(World, fail) IN
        /\ Becomes(r.w)
        /\ pcClose' = [at |-> "write", err |-> errmsg(r.rc)]
    /\ UNCHANGED <<life, ret, calls, pcFree, io, panicked, made, threadVars,
                   listVars>>

\* Close: p.opened = false; return err
CloseWritesOpened ==
    /\ pcClose.at = "write"
    /\ Becomes([World EXCEPT !.opened = FALSE])
    /\ pcClose' = [pcClose EXCEPT !.at = "done"]
    /\ ret' = [op |-> "Close", arg |-> life, err |-> pcClose.err]
    /\ life' = IF life = "Opened" THEN "Closed" ELSE life
    /\ UNCHANGED <<calls, pcFree, io, panicked, made, threadVars,
                   listVars>>

\* free: if p.opened
FreeReadsOpened ==
    /\ life = "Opened" \/ pcClose.at = "done"
    /\ pcFree = "idle"
    /\ pcFree' = IF opened THEN "close" ELSE "release"
    /\ UNCHANGED <<p, c, config, opened, fd, hw, nfd, openMode,
                   openFds, osFiles, closeCalls, doubleClose,
                   applied, reqBaud, life, ret, calls, pcClose,
                   file, readDeadline, writeDeadline, rx, tx, xfers, portFrees,
                   configFrees, io, panicked, made, threadVars,
                   listVars>>

\* free: C.sp_close(p.p)
FreeCallsProvider ==
    /\ pcFree = "close"
    /\ \E fail \in BOOLEAN : Becomes(sp_close(World, fail).w)
    /\ pcFree' = "release"
    /\ UNCHANGED <<life, ret, calls, pcClose, io, panicked, made, threadVars,
                   listVars>>

\* free: the rest of the method, from "if p.p != nil" to "p.c = nil"
FreeReleases ==
    /\ pcFree = "release"
    /\ LET w2 == IF p THEN sp_free_port(World) ELSE World
           w3 == IF w2.c THEN sp_free_config(w2) ELSE w2
       IN Becomes([w3 EXCEPT !.opened = FALSE, !.p = FALSE, !.c = FALSE])
    /\ pcFree' = "done"
    /\ ret' = [op |-> "free", arg |-> life, err |-> Nil]
    /\ life' = "Freed"
    /\ UNCHANGED <<calls, pcClose, io, panicked, made, threadVars,
                   listVars>>

NextConc ==
    \/ ConcOpen
    \/ CloseCallsProvider
    \/ CloseWritesOpened
    \/ FreeReadsOpened
    \/ FreeCallsProvider
    \/ FreeReleases

SpecConc == Init /\ [][NextConc]_vars

(***************************************************************************)
(* The I/O session: the lifecycle calls, the deadline setters and the      *)
(* transfers, on a device whose input buffer fills from outside.           *)
(***************************************************************************)
\* the instants of the model's clock, in half milliseconds
Clock == 1..MaxTime

\* the lengths of the buffers given to Read, Write and WriteString
Lengths == 1..MaxLen

\* what time.Now() can return in a call governed by deadline; it is called
\* only when the deadline is set
Now(deadline) == IF deadline = ZeroTime THEN {ZeroTime} ELSE Clock

\* the state after an I/O call that returns r: a call that blocks does not
\* return
IoReturn(r, op, arg) ==
    /\ calls < MaxCalls
    /\ ~panicked
    /\ ~r.blocked
    /\ r.prim # "panic"
    /\ Becomes(r.w)
    /\ io' = [op |-> op, prim |-> r.prim, now |-> r.now,
              timeout |-> r.timeout, c |-> r.c, n |-> r.n, err |-> r.err]
    /\ ret' = [op |-> op, arg |-> arg, err |-> r.err]
    /\ calls' = calls + 1
    /\ UNCHANGED <<life, pcClose, pcFree, panicked, made, threadVars,
                   listVars>>

\* Open with the default options; of the provider calls in it only the one
\* that obtains the handle can fail
IoOpen ==
    \E F \in {{}, {"sp_get_port_handle"}} :
        LET opt == [Mode |-> 0, Baudrate |-> 0, DataBits |-> 0,
                    StopBits |-> 0, Parity |-> 0, FlowControl |-> 0]
            r   == Open(World, opt, F)
        IN Return(r, "Open", opt, IF r.err = Nil THEN "Opened" ELSE life)

\* this step is the I/O call op returning r
IoStep(r, op) ==
    /\ ~r.blocked
    /\ World' = r.w
    /\ io' = [op |-> op, prim |-> r.prim, now |-> r.now,
              timeout |-> r.timeout, c |-> r.c, n |-> r.n, err |-> r.err]

CallWriteString ==
    \E count \in Lengths, e \in Envs :
        IoReturn(WriteString(World, count, e), "WriteString", count)

CallSetDeadline ==
    \E t \in {ZeroTime} \cup Clock :
        Return(SetDeadline(World, t), "SetDeadline", t, life)

CallSetReadDeadline ==
    \E t \in {ZeroTime} \cup Clock :
        Return(SetReadDeadline(World, t), "SetReadDeadline", t, life)

CallSetWriteDeadline ==
    \E t \in {ZeroTime} \cup Clock :
        Return(SetWriteDeadline(World, t), "SetWriteDeadline", t, life)

\* the device receives a byte from the line while its input buffer is empty
Deliver ==
    /\ fd # NoFd
    /\ rx = 0
    /\ rx' = rx + 1
    /\ UNCHANGED <<p, c, config, opened, fd, hw, nfd, openMode,
                   openFds, osFiles, closeCalls, doubleClose,
                   applied, reqBaud, life, ret, calls, pcClose,
                   pcFree, file, readDeadline, writeDeadline, tx, xfers,
                   portFrees, configFrees, io, panicked, made, threadVars,
                   listVars>>

\* a call that moves bytes or asks the device about them
Transfer ==
    \/ \E count \in Lengths, now \in Now(readDeadline), e \in Envs :
           IoReturn(Read(World, count, now, e), "Read", count)
    \/ \E count \in Lengths, now \in Now(writeDeadline), e \in Envs :
           IoReturn(Write(World, count, now, e), "Write", count)
    \/ CallWriteString
    \/ \E e \in Envs : IoReturn(InputWaiting(World, e), "InputWaiting", 0)
    \/ \E e \in Envs : IoReturn(OutputWaiting(World, e), "OutputWaiting", 0)
    \/ \E e \in Envs : IoReturn(Flush(World, e), "Flush", 0)
    \/ \E e \in Envs : IoReturn(Drain(World, e), "Drain", 0)

NextIO ==
    \/ IoOpen
    \/ CallClose
    \/ CallFree
    \/ CallApplyConfig
    \/ CallSetDeadline
    \/ CallSetReadDeadline
    \/ CallSetWriteDeadline
    \/ Transfer
    \/ Deliver

\* the port of Init, on the device that has the default settings
InitIO ==
    /\ Init
    /\ hw["baudrate"] = DefaultBaudrate

SpecIO == InitIO /\ [][NextIO]_vars

(***************************************************************************)
(* Read and Write with buffers of every length, the empty one included.    *)
(***************************************************************************)
\* the state after an I/O call that ends in a run-time panic: the call does
\* not return and nothing runs after it
IoPanics(r) ==
    /\ calls < MaxCalls
    /\ ~panicked
    /\ r.prim = "panic"
    /\ panicked' = TRUE
    /\ calls' = calls + 1
    /\ UNCHANGED <<p, c, config, opened, fd, hw, nfd, openMode,
                   openFds, osFiles, closeCalls, doubleClose,
                   applied, reqBaud, life, ret, pcClose, pcFree,
                   file, readDeadline, writeDeadline, rx, tx, xfers,
                   portFrees, configFrees, io, made, threadVars,
                   listVars>>

\* Read and Write are called with a buffer of any length, the empty buffer
\* included
NextBuf ==
    \/ IoOpen
    \/ CallClose
    \/ CallSetDeadline
    \/ CallSetReadDeadline
    \/ CallSetWriteDeadline
    \/ \E count \in 0..MaxLen, now \in Now(readDeadline), e \in Envs :
           LET r == Read(World, count, now, e) IN
           \/ IoReturn(r, "Read", count)
           \/ IoPanics(r)
    \/ \E count \in 0..MaxLen, now \in Now(writeDeadline), e \in Envs :
           LET r == Write(World, count, now, e) IN
           \/ IoReturn(r, "Write", count)
           \/ IoPanics(r)
    \/ Deliver

SpecBuf == InitIO /\ [][NextBuf]_vars

(***************************************************************************)
(* Read and Write taken step by step, one goroutine in Read and one in     *)
(* Write on the same port.  Nothing in Port synchronises them.  The steps  *)
(* of Read are the test of p.readDeadline, the computation of millis,      *)
(* which reads p.readDeadline again, and the transfer; those of Write are  *)
(* the same on p.writeDeadline.                                            *)
(***************************************************************************)
\* what a step of the reader goroutine leaves alone
readerFrame ==
    <<life, ret, pcClose, pcFree, io, panicked, made, writer, listVars>>

\* what a step of the writer goroutine leaves alone
writerFrame ==
    <<life, ret, pcClose, pcFree, io, panicked, made, reader, listVars>>

\* what a step that moves no byte leaves alone in the port and the provider
portFrame ==
    <<p, c, config, opened, fd, hw, nfd, openMode, openFds, osFiles,
      closeCalls, doubleClose, applied, reqBaud, file, rx, tx, xfers, portFrees,
      configFrees>>

\* Read: if p.readDeadline.IsZero()
ReadChecksDeadline ==
    /\ opened
    /\ calls < MaxCalls
    /\ reader.pc = "idle"
    /\ \E count \in Lengths :
        reader' = [NoCall EXCEPT
                      !.pc = IF readDeadline = ZeroTime THEN "file"
                             ELSE "millis",
                      !.count = count, !.d0 = readDeadline]
    /\ calls' = calls + 1
    /\ UNCHANGED <<portFrame, readDeadline, writeDeadline, readerFrame>>

\* Read: delta := p.readDeadline.Sub(time.Now()); millis := ...
ReadComputesMillis ==
    /\ reader.pc = "millis"
    /\ \E now \in Clock :
        reader' = [reader EXCEPT !.pc = "transfer", !.now = now,
                                  !.millis = Millis(readDeadline, now)]
    /\ UNCHANGED <<portFrame, readDeadline, writeDeadline, calls,
                   readerFrame>>

\* the reader goroutine returns r from Read
ReadReturns(r) ==
    /\ ~r.blocked
    /\ Becomes(r.w)
    /\ reader' = [NoCall EXCEPT !.prim = r.prim, !.timeout = r.timeout,
                                !.n = r.n, !.err = r.err]
    /\ UNCHANGED <<calls, readerFrame>>

\* Read: the provider's transfer, and the return
ReadTransfers ==
    /\ reader.pc = "transfer"
    /\ \E e \in Envs :
        ReadReturns(ReadTransfer(World, reader.count, reader.millis,
                                 reader.now, e))

\* Read: return p.f.Read(b)
ReadFile ==
    /\ reader.pc = "file"
    /\ \E e \in Envs :
        ReadReturns(FileResult(os_File_Read(World, reader.count, e)))

\* Write: if p.writeDeadline.IsZero()
WriteChecksDeadline ==
    /\ opened
    /\ calls < MaxCalls
    /\ writer.pc = "idle"
    /\ \E count \in Lengths :
        writer' = [NoCall EXCEPT
                      !.pc = IF writeDeadline = ZeroTime THEN "file"
                             ELSE "millis",
                      !.count = count, !.d0 = writeDeadline]
    /\ calls' = calls + 1
    /\ UNCHANGED <<portFrame, readDeadline, writeDeadline, writerFrame>>

\* Write: delta := p.writeDeadline.Sub(time.Now()); millis := ...
WriteComputesMillis ==
    /\ writer.pc = "millis"
    /\ \E now \in Clock :
        writer' = [writer EXCEPT !.pc = "transfer", !.now = now,
                                  !.millis = Millis(writeDeadline, now)]
    /\ UNCHANGED <<portFrame, readDeadline, writeDeadline, calls,
                   writerFrame>>

\* the writer goroutine returns r from Write
WriteReturns(r) ==
    /\ ~r.blocked
    /\ Becomes(r.w)
    /\ writer' = [NoCall EXCEPT !.prim = r.prim, !.timeout = r.timeout,
                                !.n = r.n, !.err = r.err]
    /\ UNCHANGED <<calls, writerFrame>>

\* Write: the provider's transfer, and the return
WriteTransfers ==
    /\ writer.pc = "transfer"
    /\ \E e \in Envs :
        WriteReturns(WriteTransfer(World, writer.count, writer.millis,
                                   writer.now, e))

\* Write: return p.f.Write(b)
WriteFile ==
    /\ writer.pc = "file"
    /\ \E e \in Envs :
        WriteReturns(FileResult(os_File_Write(World, writer.count, e)))

\* a deadline setter returns r
SetsDeadline(r) ==
    /\ Becomes(r.w)
    /\ UNCHANGED <<life, ret, calls, pcClose, pcFree, io, panicked, made,
                   threadVars, listVars>>

\* the documented split: one goroutine owns the read path, another the
\* write path
NextRW ==
    \* the one Open of this scenario, before either goroutine starts
    \/ /\ calls = 0
       /\ IoOpen
    \* the reader goroutine, between two Reads, calls SetReadDeadline
    \/ /\ reader.pc = "idle"
       /\ \E t \in {ZeroTime} \cup Clock :
           SetsDeadline(SetReadDeadline(World, t))
    \/ ReadChecksDeadline
    \/ ReadComputesMillis
    \/ ReadTransfers
    \/ ReadFile
    \* the writer goroutine, between two Writes, calls SetWriteDeadline
    \/ /\ writer.pc = "idle"
       /\ \E t \in {ZeroTime} \cup Clock :
           SetsDeadline(SetWriteDeadline(World, t))
    \/ WriteChecksDeadline
    \/ WriteComputesMillis
    \/ WriteTransfers
    \/ WriteFile
    \/ Deliver

SpecRW == InitIO /\ [][NextRW]_vars

\* a third goroutine calls SetDeadline at any moment, also while a Read or a
\* Write is in flight
NextRace ==
    \/ /\ calls = 0
       /\ IoOpen
    \/ \E t \in {ZeroTime} \cup Clock : SetsDeadline(SetDeadline(World, t))
    \/ ReadChecksDeadline
    \/ ReadComputesMillis
    \/ ReadTransfers
    \/ ReadFile
    \/ WriteChecksDeadline
    \/ WriteComputesMillis
    \/ WriteTransfers
    \/ WriteFile

SpecRace == InitIO /\ [][NextRace]_vars

(***************************************************************************)
(* The enumeration: ListPorts, one action for the provider's enumeration   *)
(* call and the count, one for each turn of the loop that copies a device  *)
(* and wraps it, one for the return.                                       *)
(***************************************************************************)
\* the names of the devices a system can have
DeviceNames == {"ttyS0", "ttyUSB0"}

\* an element of the slice that ListPorts has not set yet
NilPort == [native |-> 0, dev |-> "", opened |-> FALSE]

\* the codes sp_list_ports, sp_copy_port and sp_new_config return
ListCodes == {SP_OK, SP_ERR_FAIL, SP_ERR_MEM}

\* "count number of ports" with the loop stopping one entry early
CountPorts_short(list) == IF Len(list) = 0 THEN 0 ELSE Len(list) - 1

\* count number of ports: the entries of the array before its NULL
CountPorts(list) == Len(list)

\* everything but the state of the enumeration
portVars ==
    <<p, c, config, opened, fd, hw, nfd, openMode, openFds, osFiles,
      closeCalls, doubleClose, applied, reqBaud, life, ret, calls, pcClose, pcFree, file,
      readDeadline, writeDeadline, rx, tx, xfers, portFrees, configFrees,
      io, panicked, made, reader, writer>>

\* ListPorts from its start to "ports := make([]*Port, c)"
ListPortsCall ==
    /\ lp.at = "idle"
    /\ \E list \in UNION {[1..n -> DeviceNames] : n \in 0..MaxPorts},
          rc \in ListCodes :
        IF rc # SP_OK
        THEN /\ lp' = [lp EXCEPT !.at = "done", !.err = errmsg(rc)]
             /\ UNCHANGED <<devs, ports>>
        ELSE /\ devs' = list
             /\ ports' = [i \in 1..CountPorts(list) |-> NilPort]
             /\ lp' = [lp EXCEPT !.at = "populate", !.n = CountPorts(list),
                                 !.list = "held"]
    /\ UNCHANGED <<copies, byName, meta, portVars>>

\* one turn of the loop "for j := 0; j < c; j++"
ListPortsCopy ==
    /\ lp.at = "populate"
    /\ lp.j < lp.n
    /\ \E rcCopy \in ListCodes, rcConfig \in ListCodes :
        LET pc == Cardinality(copies) + 1 IN
        IF errmsg(rcCopy) # Nil
        THEN \* sp_copy_port failed: return nil, err
             /\ ports' = <<>>
             /\ lp' = [lp EXCEPT !.at = "done", !.list = "freed",
                                 !.err = errmsg(rcCopy)]
             /\ UNCHANGED copies
        ELSE IF errmsg(rcConfig) # Nil
        THEN \* newSerialPort failed (sp_new_config): return nil, err
             /\ copies' = copies \cup {pc}
             /\ ports' = <<>>
             /\ lp' = [lp EXCEPT !.at = "done", !.list = "freed",
                                 !.err = errmsg(rcConfig)]
        ELSE \* ports[j] = sp
             /\ copies' = copies \cup {pc}
             /\ ports' = [ports EXCEPT ![lp.j + 1] =
                            [native |-> pc, dev |-> devs[lp.j + 1],
                             opened |-> FALSE]]
             /\ lp' = [lp EXCEPT !.j = @ + 1]
    /\ UNCHANGED <<devs, byName, meta, portVars>>

\* return ports, nil (and the deferred sp_free_port_list)
ListPortsReturn ==
    /\ lp.at = "populate"
    /\ lp.j = lp.n
    /\ lp' = [lp EXCEPT !.at = "done", !.list = "freed"]
    /\ UNCHANGED <<devs, ports, copies, byName, meta, portVars>>

(***************************************************************************)
(* Resolving a device by name (PortByName and the function Open), and the  *)
(* metadata getters of the Port that comes of it.                          *)
(***************************************************************************)
\* PortByName and the function Open are called with the name of a device or
\* with a name no device has, while any of the devices are attached; miss is
\* the code with which the provider reports a name it cannot locate

\* enum sp_return sp_get_port_by_name(const char *portname,
\*                                    struct sp_port **port_ptr)
sp_get_port_by_name(portname, attached, miss) ==
    IF portname \in attached THEN [rc |-> SP_OK, dev |-> portname]
    ELSE [rc |-> miss, dev |-> ""]

\* func newSerialPort(p *C.struct_sp_port) (*Port, error), with the code
\* sp_new_config returns
newSerialPort(native, dev, rcConfig) ==
    IF errmsg(rcConfig) # Nil THEN [port |-> NilPort, err |-> errmsg(rcConfig)]
    ELSE [port |-> [native |-> native, dev |-> dev, opened |-> FALSE],
          err  |-> Nil]

\* func PortByName(name string) (*Port, error)
PortByName(name, attached, miss, rcConfig, native) ==
    LET g == sp_get_port_by_name(name, attached, miss) IN
    IF errmsg(g.rc) # Nil THEN [port |-> NilPort, err |-> errmsg(g.rc)]
    ELSE newSerialPort(native, g.dev, rcConfig)

\* the call of PortByName
CallPortByName ==
    /\ byName.at = "idle"
    /\ \E name \in DeviceNames \cup {"nonexistent-device"},
          attached \in SUBSET DeviceNames, miss \in {SP_ERR_ARG, SP_ERR_FAIL},
          rcConfig \in ListCodes :
        LET pc == Cardinality(copies) + 1
            r  == PortByName(name, attached, miss, rcConfig, pc)
        IN /\ byName' = [at |-> "done", op |-> "PortByName", name |-> name,
                      found |-> name \in attached, port |-> r.port,
                      err |-> r.err]
           /\ copies' = IF name \in attached THEN copies \cup {pc} ELSE copies
    /\ UNCHANGED <<devs, ports, lp, meta, portVars>>

\* func Open(name string, opt Options) (*Port, error): PortByName, and open
\* on the Port it returns, which is the Port of the initial state
CallOpenByName ==
    /\ byName.at = "idle"
    /\ calls = 0
    /\ \E name \in DeviceNames \cup {"nonexistent-device"},
          attached \in SUBSET DeviceNames, miss \in {SP_ERR_ARG, SP_ERR_FAIL},
          rcConfig \in ListCodes, opt \in OptionsSet,
          F \in {{}, {"sp_open"}} :
        LET pc == Cardinality(copies) + 1
            r  == PortByName(name, attached, miss, rcConfig, pc)
            o  == open(World, opt, F)
        IN /\ copies' = IF name \in attached THEN copies \cup {pc} ELSE copies
           /\ IF r.err # Nil
              THEN /\ byName' = [at |-> "done", op |-> "Open", name |-> name,
                              found |-> name \in attached, port |-> NilPort,
                              err |-> r.err]
                   /\ UNCHANGED portVars
              ELSE /\ byName' = [at |-> "done", op |-> "Open", name |-> name,
                              found |-> TRUE,
                              port |-> IF o.err # Nil THEN NilPort
                                       ELSE [r.port EXCEPT !.opened = TRUE],
                              err |-> o.err]
                   /\ Becomes(o.w)
                   /\ life' = IF o.err = Nil THEN "Opened" ELSE life
                   /\ ret' = [op |-> "Open", arg |-> opt, err |-> o.err]
                   /\ calls' = calls + 1
                   /\ UNCHANGED <<pcClose, pcFree, io, panicked, made, threadVars>>
    /\ UNCHANGED <<devs, ports, lp, meta>>

\* a C string the provider returns: NULL, or the characters s
NullString == "(NULL)"

\* C.GoString: the Go string of a C string, the empty one for NULL
GoString(cs) == IF cs = NullString THEN "" ELSE cs

\* what the provider holds about a device: its transport, and the data of
\* the USB or Bluetooth adapter where it has them
DeviceData(dev) ==
    IF dev = "ttyUSB0"
    THEN [transport |-> TRANSPORT_USB, bus |-> 1, address |-> 4,
          vid |-> 1027, pid |-> 24577, manufacturer |-> "FTDI",
          product |-> "FT232R", serial |-> NullString,
          bluetooth |-> NullString]
    ELSE [transport |-> TRANSPORT_NATIVE, bus |-> 0, address |-> 0,
          vid |-> 0, pid |-> 0, manufacturer |-> NullString,
          product |-> NullString, serial |-> NullString,
          bluetooth |-> NullString]

\* enum sp_return sp_get_port_usb_bus_address(const struct sp_port *port,
\*                                            int *usb_bus, int *usb_address)
sp_get_port_usb_bus_address(port) ==
    IF port.native = 0 THEN [rc |-> SP_ERR_ARG, a |-> 0, b |-> 0]
    ELSE [rc |-> SP_OK, a |-> DeviceData(port.dev).bus,
          b |-> DeviceData(port.dev).address]

\* enum sp_return sp_get_port_usb_vid_pid(const struct sp_port *port,
\*                                        int *usb_vid, int *usb_pid)
sp_get_port_usb_vid_pid(port) ==
    IF port.native = 0 THEN [rc |-> SP_ERR_ARG, a |-> 0, b |-> 0]
    ELSE [rc |-> SP_OK, a |-> DeviceData(port.dev).vid,
          b |-> DeviceData(port.dev).pid]

\* the provider's getters of a string: for field "manufacturer", "product",
\* "serial" and "bluetooth" they are
\* char *sp_get_port_usb_manufacturer(const struct sp_port *port)
\* char *sp_get_port_usb_product(const struct sp_port *port)
\* char *sp_get_port_usb_serial(const struct sp_port *port)
\* char *sp_get_port_bluetooth_address(const struct sp_port *port)
sp_get_port_string(port, field) ==
    IF port.native = 0 THEN NullString ELSE DeviceData(port.dev)[field]

\* the return of USBBusAddress or USBVIDPID after the provider gave r
PairResult(r) ==
    IF errmsg(r.rc) # Nil THEN [a |-> 0, b |-> 0, s |-> "", err |-> errmsg(r.rc)]
    ELSE [a |-> r.a, b |-> r.b, s |-> "", err |-> Nil]

\* USBBusAddress taking a bus and an address of 0 for an error
USBBusAddress_strict(port) ==
    LET r == sp_get_port_usb_bus_address(port) IN
    IF r.a = 0 /\ r.b = 0
    THEN [a |-> 0, b |-> 0, s |-> "", err |-> UnsupportedOperationError]
    ELSE PairResult(r)

\* func (p *Port) USBBusAddress() (int, int, error)
USBBusAddress(port) == PairResult(sp_get_port_usb_bus_address(port))

\* func (p *Port) USBVIDPID() (int, int, error)
USBVIDPID(port) == PairResult(sp_get_port_usb_vid_pid(port))

\* the return of a getter that gives a string and no error
StringResult(cs) == [a |-> 0, b |-> 0, s |-> GoString(cs), err |-> Nil]

\* func (p *Port) USBManufacturer() string
USBManufacturer(port) == StringResult(sp_get_port_string(port, "manufacturer"))

\* func (p *Port) USBProduct() string
USBProduct(port) == StringResult(sp_get_port_string(port, "product"))

\* func (p *Port) USBSerialNumber() string
USBSerialNumber(port) == StringResult(sp_get_port_string(port, "serial"))

\* func (p *Port) BluetoothAddress() string
BluetoothAddress(port) ==
    StringResult(sp_get_port_string(port, "bluetooth"))

\* the state after the metadata getter op returned r on the Port that
\* PortByName or the function Open returned
MetaReturn(r, op) ==
    /\ byName.at = "done"
    /\ byName.err = Nil
    /\ meta' = [op |-> op, a |-> r.a, b |-> r.b, s |-> r.s, err |-> r.err]
    /\ UNCHANGED <<devs, ports, copies, lp, byName, portVars>>

\* a call of one of the metadata getters
Metadata ==
    \/ MetaReturn(USBBusAddress(byName.port), "USBBusAddress")
    \/ MetaReturn(USBVIDPID(byName.port), "USBVIDPID")
    \/ MetaReturn(USBManufacturer(byName.port), "USBManufacturer")
    \/ MetaReturn(USBProduct(byName.port), "USBProduct")
    \/ MetaReturn(USBSerialNumber(byName.port), "USBSerialNumber")
    \/ MetaReturn(BluetoothAddress(byName.port), "BluetoothAddress")

NextList ==
    \/ ListPortsCall
    \/ ListPortsCopy
    \/ ListPortsReturn
    \/ CallPortByName
    \/ CallOpenByName
    \/ Metadata

SpecList == Init /\ [][NextList]_vars

(***************************************************************************)
(* The os.File that open wraps around the descriptor.  os.NewFile sets a   *)
(* finalizer on the file, which closes the descriptor when the file is     *)
(* garbage collected.  The file of a Port is unreachable once a later Open *)
(* has overwritten p.f, or once the Port itself is (free has run: the      *)
(* finalizer of the Port runs before that of the file it points to).       *)
(***************************************************************************)
\* package os: the finalizer of the file that wraps descriptor f closes f;
\* stale: it closed a descriptor that was closed already
os_file_close(w, f) ==
    [w EXCEPT !.osFiles = [live   |-> @.live \ {f},
                           closed |-> @.closed \cup {f},
                           stale  |-> @.stale \/ f \notin w.openFds],
              !.openFds = @ \ {f}]

\* the garbage collector reclaims a file that is unreachable
FileReclaimed ==
    \E f \in osFiles.live :
        /\ life = "Freed" \/ f # file
        /\ Becomes(os_file_close(World, f))
        /\ UNCHANGED <<life, ret, calls, pcClose, pcFree, io, panicked, made,
                       threadVars, listVars>>

NextFile ==
    \/ CallOpen
    \/ CallClose
    \/ CallFree
    \/ FileReclaimed

SpecFile == Init /\ [][NextFile]_vars

(***************************************************************************)
(* The claims.                                                             *)
(***************************************************************************)

\* C1: in every sequence of Open, Close and free on one Port, a free that
\* comes after Close makes no provider close call (sp_close is not invoked
\* again), and no free ever invokes sp_close on a port whose handle is
\* already closed: the handle bound by Open is not released twice.
C1_FreeAfterCloseNoSecondClose ==
    [][CallFree =>
        /\ doubleClose' = doubleClose
        /\ (life = "Closed" => closeCalls' = closeCalls)
        /\ openFds' \subseteq openFds
        /\ Cardinality(openFds \ openFds') <= 1]_vars

\* C1 witness: Open, Close, free: one provider close call in all, the handle
\* is released and the double-close flag is not raised.
C1_Witness ==
    /\ ret.op = "free"
    /\ ret.arg = "Closed"
    /\ nfd = 1
    /\ closeCalls = 1
    /\ openFds = {}
    /\ ~doubleClose

\* C2: Close on a port that is already Closed or Freed returns nil and does
\* not invoke the provider close call.
C2_CloseIdempotent ==
    [][(CallClose /\ life \in {"Closed", "Freed"}) =>
        /\ ret'.err = Nil
        /\ closeCalls' = closeCalls]_vars

C4_DefaultBaudrateApplied ==
    (ret.op = "Open" /\ ret.err = Nil /\ ret.arg.Baudrate = 0) =>
        /\ hw["baudrate"] = DefaultBaudrate
        /\ Baudrate(World).val = DefaultBaudrate

\* C5: on an Opened port, after SetBaudrate(X) and before a commit, Baudrate()
\* returns without error the rate last committed, and so not X when X is
\* another rate.
C5_BaudrateKeepsAppliedValue ==
    (opened /\ reqBaud # 0) =>
        /\ Baudrate(World).err = Nil
        /\ Baudrate(World).val = applied["baudrate"]
        /\ (reqBaud # applied["baudrate"] => Baudrate(World).val # reqBaud)

\* C5 witness: the port is open at 9600, SetBaudrate(115200) was the last
\* call, and Baudrate() returns 9600.
C5_Witness ==
    /\ opened
    /\ ret.op = "SetBaudrate"
    /\ ret.err = Nil
    /\ reqBaud = FastBaudrate
    /\ applied["baudrate"] = DefaultBaudrate
    /\ Baudrate(World).val = DefaultBaudrate

\* the setters of one field of the configuration, and their fields
FieldOfSetter ==
    [SetDataBits |-> "bits", SetParity |-> "parity",
     SetStopBits |-> "stopbits", SetRTS |-> "rts", SetCTS |-> "cts",
     SetDTR |-> "dtr", SetDSR |-> "dsr", SetXonXoff |-> "xon_xoff"]

C7_SettersLeaveHardware == [][Setter => hw' = hw]_vars

\* C8: an ApplyConfig that succeeds leaves the device and the getters with
\* every value given to the setters, the rate given to a SetBaudrate just
\* before it included;
\* an ApplyConfig that fails returns the error and leaves what the getters
\* return unchanged.
C8_ApplyConfigCommitsDesired ==
    [][CallApplyConfig =>
        IF ret'.err = Nil
        THEN /\ \A f \in Fields \ {"baudrate"} :
                    config[f] # Unset =>
                        /\ hw'[f] = config[f]
                        /\ Getter(World', f).val = config[f]
             /\ (ret.op = "SetBaudrate" /\ ret.err = Nil) =>
                    /\ hw'["baudrate"] = EffectiveBaud(ret.arg)
                    /\ Baudrate(World').val
                            \in {ret.arg, EffectiveBaud(ret.arg)}
        ELSE \A f \in Fields : Getter(World', f) = Getter(World, f)]_vars

\* C9: after an ApplyConfig that succeeds, Baudrate() returns the rate the
\* device runs at, which is the provider's rounding of the rate requested
\* with the SetBaudrate just before it.
C9_BaudrateIsEffectiveRequested ==
    [][(CallApplyConfig /\ ret'.err = Nil
            /\ ret.op = "SetBaudrate" /\ ret.err = Nil) =>
        /\ Baudrate(World').val = hw'["baudrate"]
        /\ Baudrate(World').val = EffectiveBaud(ret.arg)]_vars

\* C10: on a port that is not open, every configuration getter returns an
\* error and no value.
C10_GettersFailUnlessOpened ==
    ~opened =>
        \A f \in Fields :
            /\ Getter(World, f).err # Nil
            /\ Getter(World, f).val = 0

\* C11: on a port that is Closed or Freed, Open, ApplyConfig, Read, Write,
\* WriteString, InputWaiting, OutputWaiting, Flush and Drain return an error,
\* move no byte, and leave the port in its lifecycle state: it is not Opened
\* again.
C11_ClosedOrFreedRejects ==
    [][(life \in {"Closed", "Freed"}
            /\ (IoOpen \/ CallApplyConfig \/ Transfer)) =>
        /\ ret'.err # Nil
        /\ life' = life
        /\ ~opened'
        /\ rx' = rx
        /\ tx' = tx]_vars

\* C12: free is valid in every state of the port and idempotent.  On a port
\* never opened it makes no provider close call; on an open port it makes
\* the provider close call; after it the port is Freed and the native port
\* and the native configuration have each been released exactly once; a
\* free of a Freed port makes no provider call.
C12_FreeIdempotent ==
    [][(ret'.op = "free" /\ CallFree) =>
        /\ life' = "Freed"
        /\ ~p' /\ ~c' /\ ~opened'
        /\ portFrees' = 1
        /\ configFrees' = 1
        /\ (life = "Created" => closeCalls' = closeCalls)
        /\ (opened => closeCalls' = closeCalls + 1)
        /\ (life = "Freed" =>
                /\ closeCalls' = closeCalls
                /\ portFrees' = portFrees
                /\ configFrees' = configFrees
                /\ openFds' = openFds)]_vars

\* C12 witness: Open, free, free: the first free made the provider close call
\* and released the port and the configuration, the second one nothing.
C12_Witness ==
    /\ ret.op = "free"
    /\ ret.arg = "Freed"
    /\ nfd = 1
    /\ closeCalls = 1
    /\ portFrees = 1
    /\ configFrees = 1
    /\ openFds = {}

C14_OpenReturnsEveryError ==
    [][(CallOpen /\ ret'.err = Nil) =>
        \A F \in FaultSets :
            LET r == Open(World, ret'.arg, F) IN
            (r.err = Nil /\ r.w = World') => r.ignored = {}]_vars

C17_ErrorMapperTotal ==
    io.op \in {"Flush", "Drain"} =>
        io.err = CASE io.c = SP_ERR_ARG  -> InvalidArgumentsError
                   [] io.c = SP_ERR_FAIL -> SystemError
                   [] io.c = SP_ERR_MEM  -> MemoryAllocationError
                   [] io.c = SP_ERR_SUPP -> UnsupportedOperationError
                   [] io.c >= 0          -> Nil
                   [] OTHER              -> SystemError

\* C18: in every state of the port, WriteString of a string of some length
\* does what Write of as many bytes does at the same instant: it issues the
\* same transfer primitive, leaves the port and the device in the same state
\* and returns the same count and error.
C18_WriteStringIsWrite ==
    [][CallWriteString =>
        \A count \in Lengths, now \in Now(writeDeadline), e \in Envs :
            IoStep(WriteString(World, count, e), "WriteString") =>
                LET wr == Write(World, count, now, e) IN
                /\ ~wr.blocked
                /\ wr.prim = io'.prim
                /\ wr.n = io'.n
                /\ wr.err = io'.err
                /\ wr.w = World']_vars

C20_ListPortsReturnsAll ==
    lp.at = "done" =>
        IF lp.list # "none"
        THEN /\ lp.err = Nil
             /\ Len(ports) = Len(devs)
             /\ \A j \in 1..Len(devs) :
                    /\ ports[j].dev = devs[j]
                    /\ ports[j].native \in copies
                    /\ ~ports[j].opened
             /\ \A j, k \in 1..Len(ports) :
                    j # k => ports[j].native # ports[k].native
        ELSE /\ lp.err # Nil
             /\ ports = <<>>

\* C20 as amended: when ListPorts has returned nil as its error, which it
\* does when the enumeration call and every copy and wrapping of a device
\* succeeded, the result is N ports as above; when the enumeration call, a
\* copy or a wrapping failed, the result is an error and no ports.
C20_ListPortsAllOrNone ==
    lp.at = "done" =>
        /\ (lp.list = "none" => lp.err # Nil)
        /\ IF lp.err = Nil
           THEN /\ Len(ports) = Len(devs)
                /\ \A j \in 1..Len(devs) :
                       /\ ports[j].dev = devs[j]
                       /\ ports[j].native \in copies
                       /\ ~ports[j].opened
                /\ \A j, k \in 1..Len(ports) :
                       j # k => ports[j].native # ports[k].native
           ELSE ports = <<>>

\* C20 witness: the provider reported three devices, two of them with the
\* same name, and ListPorts returned three ports.
C20_Witness ==
    /\ lp.at = "done"
    /\ lp.err = Nil
    /\ devs = <<"ttyUSB0", "ttyS0", "ttyUSB0">>
    /\ Len(ports) = 3
    /\ ports[3].dev = "ttyUSB0"
    /\ ports[3].native = 3

\* C21 as stated: when PortByName or the function Open is given a name the
\* provider cannot locate, it returns no Port and an error that is none of
\* the errors made of the provider's codes for invalid arguments and system
\* failure: an error of its own for a name not found.
C21_MissIsNotFound ==
    (byName.at = "done" /\ ~byName.found) =>
        /\ byName.err # Nil
        /\ byName.err \notin {InvalidArgumentsError, SystemError}
        /\ byName.port = NilPort

C23_NoCallPanics == ~panicked

\* C24: with one goroutine calling only SetReadDeadline and Read and another
\* calling only SetWriteDeadline and Write on the same open port, no step of
\* one goroutine changes what the other path owns (its deadline, its side of
\* the device and the call it has in flight), and every Read and every
\* Write that returns returns what it can return, with the same buffer at
\* the same instant, when the other path has never been used.
C24_PathsDoNotInterfere ==
    [][/\ (writer' # writer \/ writeDeadline' # writeDeadline) =>
            UNCHANGED <<readDeadline, rx, reader>>
       /\ (reader' # reader \/ readDeadline' # readDeadline) =>
            UNCHANGED <<writeDeadline, tx, writer>>
       /\ (reader.pc \in {"file", "transfer"} /\ reader'.pc = "idle") =>
            \E e \in Envs :
                LET alone == Read([World EXCEPT !.writeDeadline = ZeroTime,
                                                !.tx = 0],
                                  reader.count, reader.now, e)
                IN /\ ~alone.blocked
                   /\ alone.prim = reader'.prim
                   /\ alone.timeout = reader'.timeout
                   /\ alone.n = reader'.n
                   /\ alone.err = reader'.err
                   /\ alone.w.rx = rx'
       /\ (writer.pc \in {"file", "transfer"} /\ writer'.pc = "idle") =>
            \E e \in Envs :
                LET alone == Write([World EXCEPT !.readDeadline = ZeroTime,
                                                 !.rx = 0],
                                   writer.count, writer.now, e)
                IN /\ ~alone.blocked
                   /\ alone.prim = writer'.prim
                   /\ alone.timeout = writer'.timeout
                   /\ alone.n = writer'.n
                   /\ alone.err = writer'.err
                   /\ alone.w.tx = tx']_vars

\* C24 witness: while a Read with a deadline is in flight, between its
\* computation of millis and its transfer, a Write with another deadline
\* has returned from the bounded blocking transfer.
C24_Witness ==
    /\ opened
    /\ reader.pc = "transfer"
    /\ readDeadline # ZeroTime
    /\ writeDeadline # ZeroTime
    /\ writeDeadline # readDeadline
    /\ writer.pc = "idle"
    /\ writer.prim = "blocking"
    /\ writer.n = 2
    /\ writer.err = Nil

C26_NegativeIsError ==
    (io.op \in {"Read", "Write", "InputWaiting", "OutputWaiting"}
        /\ io.prim # "file" /\ io.c < 0) =>
        io.err # Nil

\* C27: SetReadDeadline sets the read deadline and leaves the write deadline
\* as it is, SetWriteDeadline the reverse, SetDeadline sets both to the same
\* instant; the three return nil and leave the configuration, the device,
\* the handle and the lifecycle state as they are; Read and Write leave both
\* deadlines as they are.
C27_DeadlinesIndependent ==
    [][(calls' = calls + 1) =>
        /\ (ret'.op = "SetReadDeadline" =>
                /\ readDeadline' = ret'.arg
                /\ writeDeadline' = writeDeadline)
        /\ (ret'.op = "SetWriteDeadline" =>
                /\ writeDeadline' = ret'.arg
                /\ readDeadline' = readDeadline)
        /\ (ret'.op = "SetDeadline" =>
                /\ readDeadline' = ret'.arg
                /\ writeDeadline' = ret'.arg)
        /\ (ret'.op \in {"SetReadDeadline", "SetWriteDeadline",
                          "SetDeadline"} =>
                /\ ret'.err = Nil
                /\ config' = config
                /\ applied' = applied
                /\ hw' = hw
                /\ opened' = opened
                /\ fd' = fd
                /\ life' = life)
        /\ (ret'.op \in {"Read", "Write"} =>
                /\ readDeadline' = readDeadline
                /\ writeDeadline' = writeDeadline)]_vars

\* C27 witness: with the write deadline set to one instant, SetReadDeadline
\* has set the read deadline to another.
C27_Witness ==
    /\ ret.op = "SetReadDeadline"
    /\ readDeadline = 2
    /\ writeDeadline = 3

\* C28: the transfer a Read or Write issues, and its timeout, are those of
\* the deadline the call read when it started (d0) and of the instant of the
\* call: a change of the deadline made while the call is in flight does not
\* alter them.
C28_DeadlineFixedAtStart ==
    [][/\ (reader.pc = "transfer" /\ reader'.pc = "idle") =>
            /\ reader'.prim = IF Millis(reader.d0, reader.now) <= 0
                              THEN "nonblocking" ELSE "blocking"
            /\ (reader'.prim = "blocking" =>
                    reader'.timeout = Millis(reader.d0, reader.now))
       /\ (writer.pc = "transfer" /\ writer'.pc = "idle") =>
            /\ writer'.prim = IF Millis(writer.d0, writer.now) <= 0
                              THEN "nonblocking" ELSE "blocking"
            /\ (writer'.prim = "blocking" =>
                    writer'.timeout = Millis(writer.d0, writer.now))]_vars


\* C29: ApplyRawConfig of the Port sets the desired data bits to 8, the parity
\* to none, the stop bits to 1 and the flow control to none (XON/XOFF
\* disabled, CTS and DSR ignored, RTS and DTR not under flow control), leaves
\* the desired baud rate as it was, calls none of SetRTS, SetCTS, SetDTR,
\* SetDSR and SetXonXoff, and then calls the provider's sp_set_config exactly
\* once, as its last call; when one of the setters returns an error it
\* returns that error, has not called sp_set_config and the device keeps its
\* settings.
C29_RawConfigSteps ==
    [][(calls' = calls + 1 /\ ret'.op = "ApplyRawConfig") =>
        LET setters == <<"SetDataBits", "SetParity", "SetStopBits",
                         "SetFlowControl">>
            commits == {i \in 1..Len(made') : made'[i] = "sp_set_config"}
        IN /\ \A i \in 1..Len(made') :
                 made'[i] \notin {"SetRTS", "SetCTS", "SetDTR", "SetDSR",
                                  "SetXonXoff"}
           /\ c => /\ made' = Append(setters, "sp_set_config")
                   /\ commits = {5}
                   /\ config'["bits"] = 8
                   /\ config'["parity"] = PARITY_NONE
                   /\ config'["stopbits"] = 1
                   /\ config'["xon_xoff"] = XONXOFF_DISABLED
                   /\ config'["cts"] = CTS_IGNORE
                   /\ config'["dsr"] = DSR_IGNORE
                   /\ config'["rts"] = IF config["rts"] = RTS_FLOW_CONTROL
                                       THEN RTS_ON ELSE config["rts"]
                   /\ config'["dtr"] = IF config["dtr"] = DTR_FLOW_CONTROL
                                       THEN DTR_ON ELSE config["dtr"]
                   /\ config'["baudrate"] = config["baudrate"]
                   /\ ret'.err = Nil => hw' = MergeConfig(hw, config')
                   /\ ret'.err # Nil => hw' = hw
           /\ ~c => /\ made' = <<"SetDataBits">>
                    /\ commits = {}
                    /\ ret'.err = InvalidArgumentsError
                    /\ config' = config
                    /\ hw' = hw]_vars

\* C29 witness: ApplyRawConfig on an open port returned nil after its four
\* setters and the commit, and the desired RTS is still on
C29_Witness ==
    /\ ret.op = "ApplyRawConfig"
    /\ ret.err = Nil
    /\ Len(made) = 5
    /\ config["bits"] = 8
    /\ config["rts"] = RTS_ON
    /\ hw["rts"] = RTS_ON


\* C30: after Open has returned nil for Options whose Baudrate is X, not 0
\* and a rate the device supports exactly, the device runs at X and
\* Baudrate() returns X: the commit at the end of Open has not put back the
\* rate the device had before.
C30_RequestedBaudrateKept ==
    (/\ ret.op = "Open"
     /\ ret.err = Nil
     /\ ret.arg.Baudrate # 0
     /\ EffectiveBaud(ret.arg.Baudrate) = ret.arg.Baudrate) =>
        /\ hw["baudrate"] = ret.arg.Baudrate
        /\ Baudrate(World).val = ret.arg.Baudrate


\* C31: after Open has returned nil, the device has what the Options say,
\* with the defaults for the fields left 0: 8 data bits for DataBits 0 and
\* else DataBits, 1 stop bit for StopBits 0 and else StopBits, the parity of
\* Parity (0 is none), the flow control of FlowControl (0 is none: XON/XOFF
\* disabled, CTS and DSR ignored, RTS and DTR not under flow control), and
\* the port was opened with the flags read|write for Mode 0 and else Mode.
C31_OpenAppliesDefaults ==
    (ret.op = "Open" /\ ret.err = Nil) =>
        LET opt == ret.arg IN
        /\ openMode = IF opt.Mode = 0 THEN MODE_READ + MODE_WRITE
                      ELSE opt.Mode
        /\ hw["bits"] = IF opt.DataBits = 0 THEN 8 ELSE opt.DataBits
        /\ hw["stopbits"] = IF opt.StopBits = 0 THEN 1 ELSE opt.StopBits
        /\ hw["parity"] = opt.Parity
        /\ opt.FlowControl = FLOWCONTROL_NONE =>
            /\ hw["xon_xoff"] = XONXOFF_DISABLED
            /\ hw["cts"] = CTS_IGNORE
            /\ hw["dsr"] = DSR_IGNORE
            /\ hw["rts"] # RTS_FLOW_CONTROL
            /\ hw["dtr"] # DTR_FLOW_CONTROL
        /\ opt.FlowControl = FLOWCONTROL_RTSCTS =>
            /\ hw["rts"] = RTS_FLOW_CONTROL
            /\ hw["cts"] = CTS_FLOW_CONTROL


\* C32: between the calls of the API, p.opened is true exactly when the
\* provider holds an open handle for the port, also after a Close whose
\* provider close call failed and after an Open that failed (so that free,
\* which tests p.opened, closes every handle that is still open).
C32_OpenedFlagMatchesHandle == opened <=> (p /\ fd # NoFd)


\* C33: an Open called on a Port that is Opened does not make the provider
\* open another handle, unless the handle the Port holds has been closed
\* first: no Open leaves the handle of an earlier Open open with no owner.
C33_OneHandleAtATime ==
    [][(calls' = calls + 1 /\ ret'.op = "Open" /\ opened) =>
        (nfd' = nfd \/ fd \notin openFds')]_vars


\* C34: the descriptor obtained at Open is closed only by the provider's
\* close call: the file that Open wraps around it never closes it, not when
\* the file is reclaimed either, and no descriptor is closed a second time.
C34_OnlyProviderCloses ==
    /\ osFiles.closed = {}
    /\ ~osFiles.stale

============================================================================
